---------------------------- MODULE Spec2Model ----------------------------
(***************************************************************************)
(* DiT/sample_ddp.py: distributed sampling.  Every rank runs main(args);   *)
(* the ranks meet at the collectives of torch.distributed (barrier,        *)
(* all_gather); rank 0 builds the .npz archive at the end.                 *)
(*                                                                         *)
(* A payload (one decoded image) is identified by the worker, iteration    *)
(* and position in the batch that produced it: <<rank, iter, pos>>.        *)
(***************************************************************************)
EXTENDS Integers, Sequences, FiniteSets, TLC

\* ------------------------------------------------------------- bounds ---
MaxRequested == 4       \* num_fid_samples ranges over 0..MaxRequested
MaxBatch == 2           \* per_proc_batch_size ranges over 1..MaxBatch
MaxWorld == 2           \* world size ranges over 1..MaxWorld
MaxSeed == 1            \* global_seed ranges over -MaxSeed..MaxSeed

\* ---------------------------------------------------- program constants -
NameWidth == 6          \* f"{index:06d}.png"
CfgUnit == 10           \* cfg_scale is held in tenths: 1.0 is CfgUnit

VARIABLES
    args,            \* the parsed command line (argparse namespace)
    world_size,      \* dist.get_world_size()
    cuda_available,  \* torch.cuda.is_available()
    pc,              \* rank -> position in main
    err,             \* rank -> the exception that ended the worker, or "none"
    pg,              \* ranks that have called dist.init_process_group
    seed,            \* rank -> the value handed to torch.manual_seed
    coll,            \* rank -> number of collectives entered so far
    dirs,            \* directories created so far
    files,           \* file name -> payload: the .png files in sample_folder_dir
    plan,            \* rank -> the locals computed in lines 150..164
    total,           \* rank -> the local variable total
    iter,            \* rank -> iterations of the loop completed so far
    z_len,           \* rank -> length of the batch handed to the sampler
    samples,         \* rank -> the local variable samples
    sent,            \* rank -> the tensor contributed to the current all_gather
    all_images,      \* rank 0's list all_images
    npz,             \* the arrays written by np.savez, in order
    emitted,         \* payloads handed to the sink so far (history)
    model_kwargs,    \* rank -> the local variable model_kwargs
    sample_fn,       \* rank -> the local variable sample_fn
    sampler_call,    \* rank -> the last call of a diffusion sampling loop
    shapes,          \* file name -> array shape of the image in that file
    calls            \* rank -> the collectives entered so far (history)

vars == <<args, world_size, cuda_available, pc, err, pg, seed, coll, dirs,
          files, plan, total, iter, z_len, samples, sent, all_images, npz,
          emitted, model_kwargs, sample_fn, sampler_call, shapes, calls>>

config == <<args, world_size, cuda_available>>

Ranks == 0 .. (world_size - 1)

\* ------------------------------------------------------ pure functions --
Min(a, b) == IF a < b THEN a ELSE b

\* math.ceil(a / b) for a >= 0, b > 0 (the float quotient is exact enough
\* for every a, b below 2^52, which covers the values modelled here)
Ceil(a, b) == (a + b - 1) \div b

\* the decimal digits of a natural number, most significant first
RECURSIVE Digits(_)
Digits(k) == IF k < 10 THEN <<k>> ELSE Append(Digits(k \div 10), k % 10)

RECURSIVE ZeroPad(_, _)
ZeroPad(s, w) == IF Len(s) >= w THEN s ELSE ZeroPad(<<0>> \o s, w)

\* f"{index:06d}": at least NameWidth digits, zero filled on the left
FileName(index) == ZeroPad(Digits(index), NameWidth)

\* a seed that adds the rank to the base seed without scaling it
WorkerSeedSum(global_seed, ws, rank) == global_seed + rank

\* line 69
WorkerSeed(global_seed, ws, rank) == global_seed * ws + rank

\* a global batch that forgets the other workers
GlobalBatchSizeOneWorker(n, ws) == n

\* line 151
GlobalBatchSize(n, ws) == n * ws

\* a total rounded down to the batch instead of up
TotalSamplesFloor(num, gbs) == (num \div gbs) * gbs

\* line 153
TotalSamples(num, gbs) == Ceil(num, gbs) * gbs

\* lines 150..161: the locals of the workload plan
WorkloadPlan(a, ws) ==
    LET n == a.per_proc_batch_size
        gbs == GlobalBatchSize(n, ws)
        ts == TotalSamples(a.num_fid_samples, gbs)
        share == ts \div ws
    IN  [n |-> n,
         global_batch_size |-> gbs,
         total_samples |-> ts,
         samples_needed_this_gpu |-> share,
         iterations |-> share \div n]

NoPlan == [n |-> 0, global_batch_size |-> 0, total_samples |-> 0,
           samples_needed_this_gpu |-> 0, iterations |-> 0]

\* an index whose position is not strided by the world size
GlobalIndexNoStride(i, ws, rank, tot) == i + rank + tot

\* line 218
GlobalIndex(i, ws, rank, tot) == i * ws + rank + tot

\* guidance switched on already at scale 1.0
UsingCfgAtOne(a) == a.cfg_scale >= CfgUnit

\* lines 129, 178
UsingCfg(a) == a.cfg_scale > CfgUnit

\* np.concatenate(list, axis=0) of a non-empty list of batches
RECURSIVE Concatenate(_)
Concatenate(list) ==
    IF list = <<>> THEN <<>> ELSE Head(list) \o Concatenate(Tail(list))

\* arr[:num]
Truncate(arr, num) == SubSeq(arr, 1, Min(num, Len(arr)))

\* line 258 (default) and line 39: a decoded sample is an H x W x 3 array
ImageSize == 256
Channels == 3
DecodedShape == <<ImageSize, ImageSize, Channels>>

\* lines 174, 180..181: n class labels, then n null-class labels under guidance
RECURSIVE Repeat(_, _)
Repeat(x, n) == IF n <= 0 THEN <<>> ELSE <<x>> \o Repeat(x, n - 1)

Labels(a, n) ==
    IF UsingCfg(a) THEN Repeat("class", n) \o Repeat("null", n)
                   ELSE Repeat("class", n)

\* lines 182, 185
ModelKwargs(a, n) ==
    IF UsingCfg(a) THEN [y |-> Labels(a, n), cfg_scale |-> a.cfg_scale]
                   ELSE [y |-> Labels(a, n)]

\* lines 183, 186
SampleFn(a) == IF UsingCfg(a) THEN "forward_with_cfg" ELSE "forward"

\* lines 193..195 and 203..205: the function and keywords handed to the loop
SamplerCall(a, fn, kwargs, m) ==
    IF a.p_sample
       THEN [loop |-> "p_sample_loop", fn |-> fn, kwargs |-> kwargs, batch |-> m]
       ELSE [loop |-> "ddim_sample_loop", fn |-> "forward_with_cfg",
             kwargs |-> kwargs, batch |-> m]

NoKwargs == [y |-> <<>>]

NoCall == [loop |-> "none", fn |-> "none", kwargs |-> NoKwargs, batch |-> 0]

\* ---------------------------------------------------------------- Init --
Bool == {TRUE, FALSE}

SmallRuns ==
    [num_fid_samples : 0 .. MaxRequested,
     per_proc_batch_size : 1 .. MaxBatch,
     world : 1 .. MaxWorld,
     global_seed : (0 - MaxSeed) .. MaxSeed,
     cfg_scale : {CfgUnit - 5, CfgUnit, CfgUnit + 5},
     save_to_disk : Bool,
     p_sample : Bool,
     ddim_sample : Bool,
     cuda : Bool]

ScenarioRun(num, n, ws, disk) ==
    [num_fid_samples |-> num, per_proc_batch_size |-> n, world |-> ws,
     global_seed |-> 0, cfg_scale |-> CfgUnit + 5, save_to_disk |-> disk,
     p_sample |-> TRUE, ddim_sample |-> FALSE, cuda |-> TRUE]

ScenarioRuns ==
    {ScenarioRun(100, 10, 4, d) : d \in Bool} \cup
    {ScenarioRun(50, 32, 1, d) : d \in Bool}

Runs == SmallRuns \cup ScenarioRuns

Init ==
    \E run \in Runs :
        /\ args = [num_fid_samples |-> run.num_fid_samples,
                   per_proc_batch_size |-> run.per_proc_batch_size,
                   global_seed |-> run.global_seed,
                   cfg_scale |-> run.cfg_scale,
                   save_to_disk |-> run.save_to_disk,
                   p_sample |-> run.p_sample,
                   ddim_sample |-> run.ddim_sample]
        /\ world_size = run.world
        /\ cuda_available = run.cuda
        /\ pc = [r \in 0 .. (run.world - 1) |-> "cuda_check"]
        /\ err = [r \in 0 .. (run.world - 1) |-> "none"]
        /\ pg = {}
        /\ seed = [r \in 0 .. (run.world - 1) |-> 0]
        /\ coll = [r \in 0 .. (run.world - 1) |-> 0]
        /\ dirs = {}
        /\ files = <<>>
        /\ plan = [r \in 0 .. (run.world - 1) |-> NoPlan]
        /\ total = [r \in 0 .. (run.world - 1) |-> 0]
        /\ iter = [r \in 0 .. (run.world - 1) |-> 0]
        /\ z_len = [r \in 0 .. (run.world - 1) |-> 0]
        /\ samples = [r \in 0 .. (run.world - 1) |-> <<>>]
        /\ sent = [r \in 0 .. (run.world - 1) |-> <<>>]
        /\ all_images = <<>>
        /\ npz = <<>>
        /\ emitted = {}
        /\ model_kwargs = [r \in 0 .. (run.world - 1) |-> NoKwargs]
        /\ sample_fn = [r \in 0 .. (run.world - 1) |-> "none"]
        /\ sampler_call = [r \in 0 .. (run.world - 1) |-> NoCall]
        /\ shapes = <<>>
        /\ calls = [r \in 0 .. (run.world - 1) |-> <<>>]

\* -------------------------------------------------------------- helpers --
Goto(r, next) == pc' = [pc EXCEPT ![r] = next]

Raise(r, what) ==
    /\ pc' = [pc EXCEPT ![r] = "failed"]
    /\ err' = [err EXCEPT ![r] = what]

\* entering a collective: the call is counted and the worker blocks in it
Arrive(r, at, wait) ==
    /\ pc[r] = at
    /\ coll' = [coll EXCEPT ![r] = @ + 1]
    /\ calls' = [calls EXCEPT ![r] =
                    Append(@, IF at = "emit" THEN "all_gather" ELSE "barrier")]
    /\ Goto(r, wait)

\* a collective that waits for nobody
NobodyAwaited(r) == TRUE

\* a collective completes for r once every rank has entered it
AllArrived(r) == \A q \in Ranks : coll[q] >= coll[r]

\* ------------------------------------------------------------- actions --
\* line 52
CudaCheck(r) ==
    /\ pc[r] = "cuda_check"
    /\ IF cuda_available
          THEN Goto(r, "init_pg") /\ UNCHANGED err
          ELSE Raise(r, "AssertionError:cuda")
    /\ UNCHANGED <<config, pg, seed, coll, calls, dirs, files, shapes, plan,
                   total, iter, z_len, model_kwargs, sample_fn, samples, sent,
                   all_images, npz, emitted, sampler_call>>

\* lines 66..72
InitProcessGroup(r) ==
    /\ pc[r] = "init_pg"
    /\ pg' = pg \cup {r}
    /\ seed' = [seed EXCEPT ![r] = WorkerSeed(args.global_seed, world_size, r)]
    /\ Goto(r, "cfg_check")
    /\ UNCHANGED <<config, err, coll, calls, dirs, files, shapes, plan, total,
                   iter, z_len, model_kwargs, sample_fn, samples, sent,
                   all_images, npz, emitted, sampler_call>>

\* lines 128..129
CfgCheck(r) ==
    /\ pc[r] = "cfg_check"
    /\ IF args.cfg_scale >= CfgUnit
          THEN Goto(r, "makedirs") /\ UNCHANGED err
          ELSE Raise(r, "AssertionError:cfg_scale")
    /\ UNCHANGED <<config, pg, seed, coll, calls, dirs, files, shapes, plan,
                   total, iter, z_len, model_kwargs, sample_fn, samples, sent,
                   all_images, npz, emitted, sampler_call>>

\* lines 143..146
MakeDirs(r) ==
    /\ pc[r] = "makedirs"
    /\ dirs' = dirs \cup {"sample_dir"} \cup
                 (IF r = 0 /\ args.save_to_disk
                     THEN {"sample_folder_dir"} ELSE {})
    /\ Goto(r, "barrier_setup")
    /\ UNCHANGED <<config, err, pg, seed, coll, calls, files, shapes, plan,
                   total, iter, z_len, model_kwargs, sample_fn, samples, sent,
                   all_images, npz, emitted, sampler_call>>

\* line 147
SetupBarrierEnter(r) ==
    /\ Arrive(r, "barrier_setup", "in_barrier_setup")
    /\ UNCHANGED <<config, err, pg, seed, dirs, files, shapes, plan, total,
                   iter, z_len, model_kwargs, sample_fn, samples, sent,
                   all_images, npz, emitted, sampler_call>>

\* a setup barrier that lets a worker through at once
SetupBarrierNoWait(r) ==
    /\ pc[r] = "in_barrier_setup"
    /\ Goto(r, "plan")
    /\ UNCHANGED <<config, err, pg, seed, coll, calls, dirs, files, shapes, plan,
                   total, iter, z_len, model_kwargs, sample_fn, samples, sent,
                   all_images, npz, emitted, sampler_call>>

SetupBarrierLeave(r) ==
    /\ pc[r] = "in_barrier_setup"
    /\ AllArrived(r)
    /\ Goto(r, "plan")
    /\ UNCHANGED <<config, err, pg, seed, coll, calls, dirs, files, shapes,
                   plan, total, iter, z_len, model_kwargs, sample_fn, samples,
                   sent, all_images, npz, emitted, sampler_call>>

\* lines 150..166
Plan(r) ==
    /\ pc[r] = "plan"
    /\ LET p == WorkloadPlan(args, world_size) IN
         IF p.total_samples % world_size # 0
            THEN Raise(r, "AssertionError:world_size")
                 /\ UNCHANGED <<plan, total, all_images>>
         ELSE IF p.samples_needed_this_gpu % p.n # 0
            THEN Raise(r, "AssertionError:batch_size")
                 /\ UNCHANGED <<plan, total, all_images>>
         ELSE /\ plan' = [plan EXCEPT ![r] = p]
              /\ total' = [total EXCEPT ![r] = 0]
              /\ all_images' = IF r = 0 THEN <<>> ELSE all_images
              /\ Goto(r, "loop")
              /\ UNCHANGED err
    /\ UNCHANGED <<config, pg, seed, coll, calls, dirs, files, shapes, iter,
                   z_len, model_kwargs, sample_fn, samples, sent, npz,
                   emitted, sampler_call>>

\* line 168: one more pass of `for _ in pbar`, or the loop is over
LoopNext(r) ==
    /\ pc[r] = "loop"
    /\ IF iter[r] < plan[r].iterations
          THEN Goto(r, "prepare")
          ELSE Goto(r, "barrier_final")
    /\ UNCHANGED <<config, err, pg, seed, coll, calls, dirs, files, shapes,
                   plan, total, iter, z_len, model_kwargs, sample_fn, samples,
                   sent, all_images, npz, emitted, sampler_call>>

\* lines 170..189: noise and labels, doubled under classifier-free guidance
Prepare(r) ==
    /\ pc[r] = "prepare"
    /\ z_len' = [z_len EXCEPT ![r] =
                    IF UsingCfg(args) THEN plan[r].n + plan[r].n ELSE plan[r].n]
    /\ model_kwargs' = [model_kwargs EXCEPT ![r] = ModelKwargs(args, plan[r].n)]
    /\ sample_fn' = [sample_fn EXCEPT ![r] = SampleFn(args)]
    /\ Goto(r, "invoke")
    /\ UNCHANGED <<config, err, pg, seed, coll, calls, dirs, files, shapes,
                   plan, total, iter, samples, sent, all_images, npz, emitted,
                   sampler_call>>

\* the sampler's output for a batch of m items: item pos of iteration it
SamplerOutput(r, it, m) == [k \in 1 .. m |-> <<r, it, k - 1>>]

\* lines 192..207
Invoke(r) ==
    /\ pc[r] = "invoke"
    /\ IF args.p_sample \/ args.ddim_sample
          THEN /\ samples' = [samples EXCEPT ![r] =
                                 SamplerOutput(r, iter[r], z_len[r])]
               /\ sampler_call' = [sampler_call EXCEPT ![r] =
                     SamplerCall(args, sample_fn[r], model_kwargs[r], z_len[r])]
               /\ Goto(r, "postprocess")
               /\ UNCHANGED err
          ELSE /\ Raise(r, "NotImplementedError")
               /\ UNCHANGED <<samples, sampler_call>>
    /\ UNCHANGED <<config, pg, seed, coll, calls, dirs, files, shapes, plan,
                   total, iter, z_len, model_kwargs, sample_fn, sent,
                   all_images, npz, emitted>>

\* samples.chunk(2, dim=0)[0]
FirstChunk(s) == SubSeq(s, 1, Ceil(Len(s), 2))

\* lines 209..213 (decode and clamp keep the batch order and length)
Postprocess(r) ==
    /\ pc[r] = "postprocess"
    /\ samples' = [samples EXCEPT ![r] =
                      IF UsingCfg(args) THEN FirstChunk(@) ELSE @]
    /\ Goto(r, "emit")
    /\ UNCHANGED <<config, err, pg, seed, coll, calls, dirs, files, shapes,
                   plan, total, iter, z_len, model_kwargs, sample_fn, sent,
                   all_images, npz, emitted, sampler_call>>

Range(s) == {s[k] : k \in 1 .. Len(s)}

\* Image.fromarray(sample).save(path): creates or overwrites one file
Save(fs, name, payload) ==
    [x \in (DOMAIN fs) \cup {name} |-> IF x = name THEN payload ELSE fs[x]]

\* lines 217..220: the loop over enumerate(samples), from position i on
RECURSIVE SaveSamples(_, _, _, _, _, _)
SaveSamples(fs, smp, i, ws, rank, tot) ==
    IF i >= Len(smp) THEN fs
    ELSE SaveSamples(Save(fs, FileName(GlobalIndex(i, ws, rank, tot)), smp[i + 1]),
                     smp, i + 1, ws, rank, tot)

\* an offset advanced by the worker's own batch only
NextTotalLocal(tot, p) == tot + p.n

\* the arrays saved by lines 217..220 all have the decoded shape
RECURSIVE SaveShapes(_, _, _, _, _, _)
SaveShapes(sh, smp, i, ws, rank, tot) ==
    IF i >= Len(smp) THEN sh
    ELSE SaveShapes(Save(sh, FileName(GlobalIndex(i, ws, rank, tot)), DecodedShape),
                    smp, i + 1, ws, rank, tot)

\* line 228
NextTotal(tot, p) == tot + p.global_batch_size

\* lines 216..220, 228: disk mode
WriteSamples(r) ==
    /\ pc[r] = "emit"
    /\ args.save_to_disk
    /\ IF samples[r] # <<>> /\ "sample_folder_dir" \notin dirs
          THEN /\ Raise(r, "FileNotFoundError:save")
               /\ UNCHANGED <<files, shapes, total, emitted>>
          ELSE /\ files' = SaveSamples(files, samples[r], 0, world_size, r, total[r])
               /\ shapes' = SaveShapes(shapes, samples[r], 0, world_size, r, total[r])
               /\ emitted' = emitted \cup Range(samples[r])
               /\ total' = [total EXCEPT ![r] = NextTotal(@, plan[r])]
               /\ Goto(r, "barrier_iter")
               /\ UNCHANGED err
    /\ UNCHANGED <<config, pg, seed, coll, calls, dirs, plan, iter, z_len,
                   model_kwargs, sample_fn, samples, sent, all_images, npz,
                   sampler_call>>

\* lines 222..224: gather mode, the worker enters dist.all_gather
AllGatherEnter(r) ==
    /\ ~args.save_to_disk
    /\ Arrive(r, "emit", "in_all_gather")
    /\ sent' = [sent EXCEPT ![r] = samples[r]]
    /\ emitted' = emitted \cup Range(samples[r])
    /\ UNCHANGED <<config, err, pg, seed, dirs, files, shapes, plan, total,
                   iter, z_len, model_kwargs, sample_fn, samples, all_images,
                   npz, sampler_call>>

\* gathered_samples after all_gather: one batch per rank, in rank order
GatheredSamples == [k \in 1 .. world_size |-> sent[k - 1]]

\* lines 224..228: all_gather returns; rank 0 extends all_images
AllGatherLeave(r) ==
    /\ pc[r] = "in_all_gather"
    /\ AllArrived(r)
    /\ all_images' = IF r = 0 THEN all_images \o GatheredSamples ELSE all_images
    /\ total' = [total EXCEPT ![r] = NextTotal(@, plan[r])]
    /\ Goto(r, "barrier_iter")
    /\ UNCHANGED <<config, err, pg, seed, coll, calls, dirs, files, shapes,
                   plan, iter, z_len, model_kwargs, sample_fn, samples, sent,
                   npz, emitted, sampler_call>>

\* line 230
IterBarrierEnter(r) ==
    /\ Arrive(r, "barrier_iter", "in_barrier_iter")
    /\ UNCHANGED <<config, err, pg, seed, dirs, files, shapes, plan, total,
                   iter, z_len, model_kwargs, sample_fn, samples, sent,
                   all_images, npz, emitted, sampler_call>>

\* an iteration barrier that lets a worker through at once
IterBarrierNoWait(r) ==
    /\ pc[r] = "in_barrier_iter"
    /\ iter' = [iter EXCEPT ![r] = @ + 1]
    /\ Goto(r, "loop")
    /\ UNCHANGED <<config, err, pg, seed, coll, calls, dirs, files, shapes, plan,
                   total, z_len, model_kwargs, sample_fn, samples, sent,
                   all_images, npz, emitted, sampler_call>>

IterBarrierLeave(r) ==
    /\ pc[r] = "in_barrier_iter"
    /\ AllArrived(r)
    /\ iter' = [iter EXCEPT ![r] = @ + 1]
    /\ Goto(r, "loop")
    /\ UNCHANGED <<config, err, pg, seed, coll, calls, dirs, files, shapes,
                   plan, total, z_len, model_kwargs, sample_fn, samples, sent,
                   all_images, npz, emitted, sampler_call>>

\* line 233
FinalBarrierEnter(r) ==
    /\ Arrive(r, "barrier_final", "in_barrier_final")
    /\ UNCHANGED <<config, err, pg, seed, dirs, files, shapes, plan, total,
                   iter, z_len, model_kwargs, sample_fn, samples, sent,
                   all_images, npz, emitted, sampler_call>>

\* a pre-archive barrier that lets a worker through at once
FinalBarrierNoWait(r) ==
    /\ pc[r] = "in_barrier_final"
    /\ Goto(r, "archive")
    /\ UNCHANGED <<config, err, pg, seed, coll, calls, dirs, files, shapes, plan,
                   total, iter, z_len, model_kwargs, sample_fn, samples, sent,
                   all_images, npz, emitted, sampler_call>>

FinalBarrierLeave(r) ==
    /\ pc[r] = "in_barrier_final"
    /\ AllArrived(r)
    /\ Goto(r, "archive")
    /\ UNCHANGED <<config, err, pg, seed, coll, calls, dirs, files, shapes,
                   plan, total, iter, z_len, model_kwargs, sample_fn, samples,
                   sent, all_images, npz, emitted, sampler_call>>

\* a reader that starts at file 1
ReadNamesFromOne(num) == [k \in 1 .. num |-> FileName(k)]

\* lines 34..37: the files read by range(num), in that order
ReadNames(num) == [k \in 1 .. num |-> FileName(k - 1)]

\* an outcome that skips the shape checks of lines 38..39
NpzOutcomeNoShapeCheck(fs, sh, num) ==
    LET names == ReadNames(num) IN
    IF \E k \in 1 .. num : names[k] \notin DOMAIN fs
       THEN "FileNotFoundError:open"
    ELSE IF num = 0 THEN "ValueError:stack"
    ELSE "ok"

\* lines 34..39: what create_npz_from_sample_folder does before it writes.
\* Image.open of a missing file raises; np.stack raises on an empty list and
\* on arrays of different shapes; the assertion wants (num, H, W, 3).
NpzOutcome(fs, sh, num) ==
    LET names == ReadNames(num) IN
    IF \E k \in 1 .. num : names[k] \notin DOMAIN fs
       THEN "FileNotFoundError:open"
    ELSE IF num = 0 THEN "ValueError:stack"
    ELSE IF \E k \in 1 .. num : sh[names[k]] # sh[names[1]]
       THEN "ValueError:stack"
    ELSE LET stacked == <<num>> \o sh[names[1]] IN
         IF Len(stacked) = 4 /\ stacked[4] = Channels
            THEN "ok" ELSE "AssertionError:shape"

\* lines 29..43: create_npz_from_sample_folder(sample_dir, num)
CreateNpzFromSampleFolder(r) ==
    /\ pc[r] = "archive"
    /\ r = 0
    /\ args.save_to_disk
    /\ LET names == ReadNames(args.num_fid_samples)
           outcome == NpzOutcome(files, shapes, args.num_fid_samples) IN
         IF outcome # "ok"
            THEN Raise(r, outcome) /\ UNCHANGED npz
            ELSE /\ npz' = Append(npz, [k \in 1 .. Len(names) |-> files[names[k]]])
                 /\ Goto(r, "barrier_end")
                 /\ UNCHANGED err
    /\ UNCHANGED <<config, pg, seed, coll, calls, dirs, files, shapes, plan,
                   total, iter, z_len, model_kwargs, sample_fn, samples, sent,
                   all_images, emitted, sampler_call>>

\* lines 239..246: np.concatenate of an empty list raises
SaveGathered(r) ==
    /\ pc[r] = "archive"
    /\ r = 0
    /\ ~args.save_to_disk
    /\ IF all_images = <<>>
          THEN Raise(r, "ValueError:concatenate") /\ UNCHANGED npz
          ELSE /\ npz' = Append(npz, Truncate(Concatenate(all_images),
                                              args.num_fid_samples))
               /\ Goto(r, "barrier_end")
               /\ UNCHANGED err
    /\ UNCHANGED <<config, pg, seed, coll, calls, dirs, files, shapes, plan,
                   total, iter, z_len, model_kwargs, sample_fn, samples, sent,
                   all_images, emitted, sampler_call>>

\* the other ranks leave without the barrier of line 247
SkipArchiveNoBarrier(r) ==
    /\ pc[r] = "archive"
    /\ r # 0
    /\ Goto(r, "destroy")
    /\ UNCHANGED <<config, err, pg, seed, coll, calls, dirs, files, shapes, plan,
                   total, iter, z_len, model_kwargs, sample_fn, samples, sent,
                   all_images, npz, emitted, sampler_call>>

\* line 234: the other ranks build nothing
SkipArchive(r) ==
    /\ pc[r] = "archive"
    /\ r # 0
    /\ Goto(r, "barrier_end")
    /\ UNCHANGED <<config, err, pg, seed, coll, calls, dirs, files, shapes,
                   plan, total, iter, z_len, model_kwargs, sample_fn, samples,
                   sent, all_images, npz, emitted, sampler_call>>

\* line 247
EndBarrierEnter(r) ==
    /\ Arrive(r, "barrier_end", "in_barrier_end")
    /\ UNCHANGED <<config, err, pg, seed, dirs, files, shapes, plan, total,
                   iter, z_len, model_kwargs, sample_fn, samples, sent,
                   all_images, npz, emitted, sampler_call>>

EndBarrierLeave(r) ==
    /\ pc[r] = "in_barrier_end"
    /\ AllArrived(r)
    /\ Goto(r, "destroy")
    /\ UNCHANGED <<config, err, pg, seed, coll, calls, dirs, files, shapes,
                   plan, total, iter, z_len, model_kwargs, sample_fn, samples,
                   sent, all_images, npz, emitted, sampler_call>>

\* line 248
DestroyProcessGroup(r) ==
    /\ pc[r] = "destroy"
    /\ pg' = pg \ {r}
    /\ Goto(r, "done")
    /\ UNCHANGED <<config, err, seed, coll, calls, dirs, files, shapes, plan,
                   total, iter, z_len, model_kwargs, sample_fn, samples, sent,
                   all_images, npz, emitted, sampler_call>>

Next ==
    \/ \E r \in Ranks : CudaCheck(r)
    \/ \E r \in Ranks : InitProcessGroup(r)
    \/ \E r \in Ranks : CfgCheck(r)
    \/ \E r \in Ranks : MakeDirs(r)
    \/ \E r \in Ranks : SetupBarrierEnter(r)
    \/ \E r \in Ranks : SetupBarrierLeave(r)
    \/ \E r \in Ranks : Plan(r)
    \/ \E r \in Ranks : LoopNext(r)
    \/ \E r \in Ranks : Prepare(r)
    \/ \E r \in Ranks : Invoke(r)
    \/ \E r \in Ranks : Postprocess(r)
    \/ \E r \in Ranks : WriteSamples(r)
    \/ \E r \in Ranks : AllGatherEnter(r)
    \/ \E r \in Ranks : AllGatherLeave(r)
    \/ \E r \in Ranks : IterBarrierEnter(r)
    \/ \E r \in Ranks : IterBarrierLeave(r)
    \/ \E r \in Ranks : FinalBarrierEnter(r)
    \/ \E r \in Ranks : FinalBarrierLeave(r)
    \/ \E r \in Ranks : CreateNpzFromSampleFolder(r)
    \/ \E r \in Ranks : SaveGathered(r)
    \/ \E r \in Ranks : SkipArchive(r)
    \/ \E r \in Ranks : EndBarrierEnter(r)
    \/ \E r \in Ranks : EndBarrierLeave(r)
    \/ \E r \in Ranks : DestroyProcessGroup(r)

Spec == Init /\ [][Next]_vars

\* The same runs with one global seed: line 74 hands the seed to
\* torch.manual_seed and nothing else reads it, so apart from the seeds
\* themselves one value stands for all.
InitOneSeed ==
    /\ Init
    /\ args.global_seed = 0

SpecOneSeed == InitOneSeed /\ [][Next]_vars

\* ------------------------------------------------ runs with failures ----
\* lines 47..248: a device or storage error ends a worker wherever it stands
Crash(r) ==
    /\ pc[r] \notin {"done", "failed"}
    /\ Raise(r, "crash")
    /\ UNCHANGED <<config, pg, seed, coll, calls, dirs, files, shapes, plan,
                   total, iter, z_len, model_kwargs, sample_fn, samples, sent,
                   all_images, npz, emitted, sampler_call>>

\* runs that pass the startup checks and have a sampling strategy (the seed
\* only feeds torch.manual_seed and steers nothing, so one seed stands for all)
InitCrash ==
    /\ Init
    /\ cuda_available
    /\ args.cfg_scale >= CfgUnit
    /\ args.p_sample \/ args.ddim_sample
    /\ args.num_fid_samples <= MaxRequested
    /\ args.global_seed = 0

NextCrash ==
    \/ Next
    \/ \E r \in Ranks : Crash(r)

SpecCrash == InitCrash /\ [][NextCrash]_vars

\* ------------------------------------------------- runs to completion ----
\* runs that pass the startup checks, have a sampling strategy and are asked
\* for at least one sample (with one seed standing for all, as the seed
\* steers nothing); every worker process keeps being scheduled
InitLive ==
    /\ Init
    /\ cuda_available
    /\ args.cfg_scale >= CfgUnit
    /\ args.p_sample \/ args.ddim_sample
    /\ args.num_fid_samples >= 1
    /\ args.num_fid_samples <= MaxRequested
    /\ args.global_seed = 0

SpecLive == InitLive /\ [][Next]_vars /\ WF_vars(Next)

\* ------------------------------- create_npz_from_sample_folder alone ----
\* Rank 0 of a one-worker disk run stands at line 236 and finds the sample
\* folder as the file system holds it: any of the files 0 .. MaxFiles - 1
\* may be there, each an image of one of these shapes.
MaxFiles == 3

ShapeChoices ==
    {DecodedShape,
     <<ImageSize, ImageSize>>,
     <<ImageSize, ImageSize, Channels + 1>>,
     <<ImageSize + ImageSize, ImageSize + ImageSize, Channels>>}

FolderOf(present, sh) ==
    [nm \in {FileName(k) : k \in present} |->
        LET k == CHOOSE j \in present : FileName(j) = nm
        IN  [payload |-> <<0, 0, k>>, shape |-> sh[k]]]

InitNpz ==
    \E num \in 0 .. MaxFiles :
      \E present \in SUBSET (0 .. (MaxFiles - 1)) :
        \E sh \in [present -> ShapeChoices] :
            /\ args = [num_fid_samples |-> num, per_proc_batch_size |-> 1,
                       global_seed |-> 0, cfg_scale |-> CfgUnit,
                       save_to_disk |-> TRUE, p_sample |-> TRUE,
                       ddim_sample |-> FALSE]
            /\ world_size = 1
            /\ cuda_available = TRUE
            /\ pc = [r \in {0} |-> "archive"]
            /\ err = [r \in {0} |-> "none"]
            /\ pg = {0}
            /\ seed = [r \in {0} |-> 0]
            /\ coll = [r \in {0} |-> 0]
            /\ dirs = {"sample_dir", "sample_folder_dir"}
            /\ files = [nm \in DOMAIN FolderOf(present, sh) |->
                           FolderOf(present, sh)[nm].payload]
            /\ shapes = [nm \in DOMAIN FolderOf(present, sh) |->
                            FolderOf(present, sh)[nm].shape]
            /\ plan = [r \in {0} |-> WorkloadPlan(args, 1)]
            /\ total = [r \in {0} |-> 0]
            /\ iter = [r \in {0} |-> 0]
            /\ z_len = [r \in {0} |-> 0]
            /\ samples = [r \in {0} |-> <<>>]
            /\ sent = [r \in {0} |-> <<>>]
            /\ all_images = <<>>
            /\ npz = <<>>
            /\ emitted = {}
            /\ model_kwargs = [r \in {0} |-> NoKwargs]
            /\ sample_fn = [r \in {0} |-> "none"]
            /\ sampler_call = [r \in {0} |-> NoCall]
            /\ calls = [r \in {0} |-> <<>>]

NextNpz == \E r \in Ranks : CreateNpzFromSampleFolder(r)

SpecNpz == InitNpz /\ [][NextNpz]_vars

\* ===================================================== the claims ======
PostLoop == {"barrier_final", "in_barrier_final", "archive", "barrier_end",
             "in_barrier_end", "destroy", "done"}

Planned == {"loop", "prepare", "invoke", "postprocess", "emit",
            "in_all_gather", "barrier_iter", "in_barrier_iter"} \cup PostLoop

AllDone == \A r \in Ranks : pc[r] = "done"

StrategySelected == args.p_sample \/ args.ddim_sample

\* the environment and the command line pass the checks of lines 52 and 128
ValidConfig == cuda_available /\ args.cfg_scale >= CfgUnit

\* the global index of a payload by the formula of the data model:
\* iteration offset + local position * world size + rank
IndexOf(p) ==
    p[2] * (args.per_proc_batch_size * world_size) + p[3] * world_size + p[1]

\* C1: in disk mode no file path is ever written twice, and once every worker
\* has left the loop the written paths are exactly those of the indices
\* 0 .. total_samples - 1.
C1_IndicesExactlyOnce ==
    args.save_to_disk =>
        /\ Cardinality(DOMAIN files) = Cardinality(emitted)
        /\ (\A r \in Ranks : pc[r] \in PostLoop) =>
               DOMAIN files =
                   {FileName(k) : k \in 0 .. (plan[0].total_samples - 1)}

C1_Witness ==
    /\ args.save_to_disk
    /\ AllDone
    /\ world_size >= 2
    /\ plan[0].iterations >= 2
    /\ Cardinality(DOMAIN files) = plan[0].total_samples

\* C2: the planned total is a multiple of the world size and the share of a
\* worker is a multiple of the batch size; neither assertion of lines 158
\* and 160 ever fails.
C2_PlanDivisible ==
    \A r \in Ranks :
        /\ err[r] \notin {"AssertionError:world_size", "AssertionError:batch_size"}
        /\ pc[r] \in Planned =>
              /\ plan[r].total_samples % world_size = 0
              /\ (plan[r].total_samples \div world_size)
                     % args.per_proc_batch_size = 0

C2_Witness ==
    \E r \in Ranks :
        /\ pc[r] = "loop"
        /\ world_size = 2
        /\ args.per_proc_batch_size = 2
        /\ args.num_fid_samples % 4 # 0

\* C3: total_samples is the smallest multiple of the global batch size that
\* is at least num_fid_samples.
C3_SmallestMultiple ==
    \A r \in Ranks :
        pc[r] \in Planned =>
            LET g == args.per_proc_batch_size * world_size IN
            /\ plan[r].total_samples % g = 0
            /\ plan[r].total_samples >= args.num_fid_samples
            /\ plan[r].total_samples - args.num_fid_samples < g

C3_Witness ==
    \E r \in Ranks :
        /\ pc[r] = "loop"
        /\ args.num_fid_samples > 0
        /\ plan[r].total_samples > args.num_fid_samples
        /\ args.per_proc_batch_size * world_size > 1

\* the number of batches worker r has handed to the sink
Batches(r) ==
    IF pc[r] \in {"in_all_gather", "barrier_iter", "in_barrier_iter"}
       THEN iter[r] + 1 ELSE iter[r]

\* C4: a worker hands per_proc_batch_size records to the sink in every
\* iteration; it leaves the loop after total_samples / global_batch_size
\* iterations with total = total_samples; together the workers emit
\* total_samples records; the two scenarios give the stated plans.
C4_LoopCounts ==
    /\ \A r \in Ranks :
          /\ StrategySelected =>
                Cardinality({e \in emitted : e[1] = r})
                    = Batches(r) * args.per_proc_batch_size
          /\ pc[r] \in PostLoop =>
                /\ iter[r] * (args.per_proc_batch_size * world_size)
                       = plan[r].total_samples
                /\ iter[r] = plan[r].iterations
                /\ StrategySelected => total[r] = plan[r].total_samples
          /\ (pc[r] \in Planned /\ args.num_fid_samples = 100
                /\ args.per_proc_batch_size = 10 /\ world_size = 4) =>
                /\ plan[r].global_batch_size = 40
                /\ plan[r].total_samples = 120
                /\ plan[r].samples_needed_this_gpu = 30
                /\ plan[r].iterations = 3
          /\ (pc[r] \in Planned /\ args.num_fid_samples = 50
                /\ args.per_proc_batch_size = 32 /\ world_size = 1) =>
                /\ plan[r].global_batch_size = 32
                /\ plan[r].total_samples = 64
                /\ plan[r].iterations = 2
    /\ (StrategySelected /\ \A r \in Ranks : pc[r] \in PostLoop) =>
          Cardinality(emitted) = plan[0].total_samples

C4_Witness ==
    /\ AllDone
    /\ args.num_fid_samples = 100
    /\ world_size = 4
    /\ Cardinality(emitted) = 120
    /\ \A r \in Ranks : total[r] = 120 /\ iter[r] = 3

\* C5: the disk archive has num_fid_samples entries, entry k being the payload
\* of global index k, and create_npz_from_sample_folder never misses a file.
C5_DiskArchive ==
    args.save_to_disk =>
        /\ \A r \in Ranks : err[r] # "FileNotFoundError:open"
        /\ \A a \in 1 .. Len(npz) :
              /\ Len(npz[a]) = args.num_fid_samples
              /\ \A k \in 1 .. Len(npz[a]) :
                    /\ IndexOf(npz[a][k]) = k - 1
                    /\ npz[a][k] = files[FileName(k - 1)]

C5_Witness ==
    /\ args.save_to_disk
    /\ AllDone
    /\ Len(npz) = 1
    /\ world_size >= 2
    /\ args.per_proc_batch_size >= 2
    /\ plan[0].total_samples > args.num_fid_samples

\* C6: the gather archive holds at entry k the record of global index k, and
\* no record of global index >= num_fid_samples.
C6_GatherArchiveByIndex ==
    ~args.save_to_disk =>
        \A a \in 1 .. Len(npz) :
            \A k \in 1 .. Len(npz[a]) :
                /\ IndexOf(npz[a][k]) = k - 1
                /\ IndexOf(npz[a][k]) < args.num_fid_samples

\* C7: a run with a valid configuration and a sampling strategy raises
\* nothing, writes at most one archive, and ends with exactly one archive of
\* num_fid_samples entries.
C7_OneArchive ==
    (ValidConfig /\ StrategySelected) =>
        /\ \A r \in Ranks : pc[r] # "failed"
        /\ Len(npz) <= 1
        /\ \A a \in 1 .. Len(npz) : Len(npz[a]) = args.num_fid_samples
        /\ AllDone => Len(npz) = 1

Seeded(r) ==
    pc[r] \notin {"cuda_check", "init_pg"} /\ err[r] # "AssertionError:cuda"

\* C8: a worker's seed is global_seed * world_size + rank, and for this world
\* size no other pair (global_seed, rank) gives the same seed.
C8_SeedInjective ==
    \A r \in Ranks :
        Seeded(r) =>
            /\ seed[r] = args.global_seed * world_size + r
            /\ \A b \in (0 - MaxSeed - 1) .. (MaxSeed + 1) :
                  \A q \in Ranks :
                      WorkerSeed(b, world_size, q) = seed[r] =>
                          b = args.global_seed /\ q = r

C8_Witness ==
    /\ world_size >= 2
    /\ args.global_seed < 0
    /\ \A r \in Ranks : Seeded(r)
    /\ seed[0] # seed[1]

ConfigErrors == {"AssertionError:cuda", "AssertionError:world_size",
                 "AssertionError:batch_size", "NotImplementedError"}

\* C9: a worker ended by a configuration error has not initialised the
\* process group, has entered no collective, and no directory exists yet.
C9_ConfigErrorsBeforeCoordination ==
    \A r \in Ranks :
        err[r] \in ConfigErrors =>
            /\ r \notin pg
            /\ coll[r] = 0
            /\ dirs = {}

\* C10: with no sampling strategy selected no worker gets past the loop, no
\* record is emitted, no archive is written, and a worker that ends, ends
\* with the configuration error.
C10_NoStrategyIsFatal ==
    (ValidConfig /\ ~StrategySelected) =>
        /\ emitted = {}
        /\ npz = <<>>
        /\ \A r \in Ranks :
              /\ pc[r] \notin PostLoop
              /\ pc[r] = "failed" => err[r] = "NotImplementedError"

\* C12: the batch handed to the sampler has 2n items (n class labels, then n
\* null labels) exactly when cfg_scale > 1.0 and n items otherwise; the second
\* half of the output is dropped exactly when cfg_scale > 1.0; n payloads, the
\* first n of the sampler's output, reach the sink.
C12_GuidanceBatch ==
    \A r \in Ranks :
        LET n == args.per_proc_batch_size
            guided == args.cfg_scale > CfgUnit
            handed == IF guided THEN n + n ELSE n
        IN
        /\ pc[r] = "invoke" =>
              /\ z_len[r] = handed
              /\ Len(model_kwargs[r].y) = handed
              /\ \A k \in 1 .. handed :
                    model_kwargs[r].y[k] = IF k <= n THEN "class" ELSE "null"
        /\ pc[r] = "postprocess" =>
              /\ sampler_call[r].batch = handed
              /\ Len(samples[r]) = handed
        /\ pc[r] = "emit" =>
              /\ Len(samples[r]) = n
              /\ \A k \in 1 .. n : samples[r][k] = <<r, iter[r], k - 1>>
              /\ sampler_call[r].batch - Len(samples[r])
                     = IF guided THEN n ELSE 0

C12_Witness ==
    \E r \in Ranks :
        /\ pc[r] = "emit"
        /\ args.cfg_scale > CfgUnit
        /\ args.per_proc_batch_size = 2
        /\ sampler_call[r].batch = 4
        /\ Len(samples[r]) = 2

\* the files create_npz_from_sample_folder is asked to read
Needed == {FileName(k) : k \in 0 .. (args.num_fid_samples - 1)}

SomeFileMissing == \E nm \in Needed : nm \notin DOMAIN files

ShapesDisagree ==
    \E a \in Needed \cap DOMAIN shapes :
        \/ Len(shapes[a]) # 3
        \/ shapes[a][Len(shapes[a])] # 3
        \/ \E b \in Needed \cap DOMAIN shapes : shapes[b] # shapes[a]

\* C13: in disk mode, when a needed file is missing or the images read do not
\* all have one shape with 3 channels, the archive builder raises and no
\* archive is written.
C13_NoPartialArchive ==
    (args.save_to_disk /\ (SomeFileMissing \/ ShapesDisagree)) =>
        /\ npz = <<>>
        /\ pc[0] \notin {"barrier_end", "in_barrier_end", "destroy", "done"}

C13_Witness ==
    /\ pc[0] = "failed"
    /\ err[0] = "AssertionError:shape"
    /\ args.num_fid_samples >= 2
    /\ ~SomeFileMissing
    /\ ShapesDisagree
    /\ npz = <<>>

BeforeMakeDirs(r) ==
    \/ pc[r] \in {"cuda_check", "init_pg", "cfg_check", "makedirs"}
    \/ err[r] \in {"AssertionError:cuda", "AssertionError:cfg_scale"}

\* C14: in disk mode the sample folder exists only once rank 0 has made it,
\* every worker past the setup barrier finds it made, and no write ever
\* misses it.
C14_DirBeforeWrites ==
    args.save_to_disk =>
        /\ BeforeMakeDirs(0) => "sample_folder_dir" \notin dirs
        /\ DOMAIN files # {} => "sample_folder_dir" \in dirs
        /\ \A r \in Ranks :
              /\ err[r] # "FileNotFoundError:save"
              /\ pc[r] \in Planned =>
                    /\ "sample_folder_dir" \in dirs
                    /\ ~BeforeMakeDirs(0)

C14_Witness ==
    /\ args.save_to_disk
    /\ world_size >= 2
    /\ \E e \in emitted : e[1] # 0
    /\ \A e \in emitted : e[1] # 0
    /\ pc[0] = "plan"

ArchiveErrors == {"FileNotFoundError:open", "ValueError:stack",
                  "AssertionError:shape", "ValueError:concatenate"}

AfterArchive == {"barrier_end", "in_barrier_end", "destroy", "done"}

\* C15: the archive is written at most once, by rank 0, and rank 0 reaches
\* the archive step only when every worker has finished all its iterations
\* and entered the barrier of line 233.
C15_ArchiveAfterAll ==
    /\ Len(npz) <= 1
    /\ npz # <<>> => pc[0] \in AfterArchive
    /\ (pc[0] \in {"archive"} \cup AfterArchive \/ err[0] \in ArchiveErrors) =>
          \A r \in Ranks :
              /\ iter[r] = plan[0].iterations
              /\ \/ pc[r] \in PostLoop \ {"barrier_final"}
                 \/ r = 0 /\ err[r] \in ArchiveErrors

C15_Witness ==
    /\ world_size >= 2
    /\ npz # <<>>
    /\ plan[0].iterations >= 2
    /\ pc[1] = "in_barrier_final"

InIteration == {"prepare", "invoke", "postprocess", "emit", "in_all_gather",
                "barrier_iter", "in_barrier_iter"}

\* the number of iterations worker r has started
Started(r) == IF pc[r] \in InIteration THEN iter[r] + 1 ELSE iter[r]

\* C16: a worker starts an iteration only when every worker has handed the
\* batch of the previous iteration to the sink; the iteration counters of
\* two workers differ by at most one.
C16_IterationLockstep ==
    \A r \in Ranks : \A q \in Ranks :
        /\ Started(r) <= Batches(q) + 1
        /\ iter[r] - iter[q] <= 1

C16_Witness ==
    /\ world_size >= 2
    /\ \E r \in Ranks : \E q \in Ranks :
          /\ iter[r] = 1 /\ pc[r] = "prepare"
          /\ iter[q] = 0 /\ pc[q] = "in_barrier_iter"

\* the collectives a worker enters up to and including the barrier of line
\* 233: the setup barrier, one barrier (and one all_gather in gather mode)
\* per iteration, and the pre-archive barrier
CollectivesToArchive ==
    LET g == args.per_proc_batch_size * world_size
        iterations == (args.num_fid_samples + g - 1) \div g
    IN  2 + iterations * (IF args.save_to_disk THEN 1 ELSE 2)

FailedEarly(r) == pc[r] = "failed" /\ coll[r] < CollectivesToArchive

\* C17: once a worker has failed before entering the pre-archive barrier, no
\* archive exists, in either output mode.
C17_NoPartialArchiveAfterFailure ==
    (\E r \in Ranks : FailedEarly(r)) => npz = <<>>

C17_Witness ==
    /\ world_size >= 2
    /\ err[1] = "crash"
    /\ FailedEarly(1)
    /\ iter[1] >= 1
    /\ pc[0] = "in_barrier_final"
    /\ npz = <<>>

\* the batch worker r hands to the sink in iteration it
WorkerBatch(r, it) ==
    LET n == args.per_proc_batch_size
        out == SamplerOutput(r, it, IF UsingCfg(args) THEN n + n ELSE n)
    IN  IF UsingCfg(args) THEN FirstChunk(out) ELSE out

\* the sample folder after the writes of lines 217..220 by every rank in
\* every iteration, the (iteration, rank) pairs counted from k on
RECURSIVE DiskFilesFrom(_, _)
DiskFilesFrom(fs, k) ==
    LET p == WorkloadPlan(args, world_size)
        it == k \div world_size
        r == k % world_size
    IN  IF k >= p.iterations * world_size THEN fs
        ELSE DiskFilesFrom(
                 SaveSamples(fs, WorkerBatch(r, it), 0, world_size, r,
                             it * p.global_batch_size),
                 k + 1)

\* the archive disk mode builds for this configuration
DiskArchive ==
    LET fs == DiskFilesFrom(<<>>, 0)
    IN  [k \in 1 .. args.num_fid_samples |-> fs[FileName(k - 1)]]

\* C18: whatever the output mode, the archive written is the one disk mode
\* builds for the configuration: the same payloads in the same order.
C18_ModesAgree ==
    \A a \in 1 .. Len(npz) : npz[a] = DiskArchive

\* the collectives of a full run, in order
RECURSIVE IterationCalls(_)
IterationCalls(k) ==
    IF k <= 0 THEN <<>>
    ELSE (IF args.save_to_disk THEN <<"barrier">>
                               ELSE <<"all_gather", "barrier">>)
         \o IterationCalls(k - 1)

ExpectedCalls ==
    LET g == args.per_proc_batch_size * world_size
    IN  <<"barrier">> \o IterationCalls((args.num_fid_samples + g - 1) \div g)
            \o <<"barrier", "barrier">>

IsPrefix(s, t) == Len(s) <= Len(t) /\ SubSeq(t, 1, Len(s)) = s

FullRun ==
    /\ cuda_available
    /\ args.cfg_scale >= CfgUnit
    /\ args.p_sample \/ args.ddim_sample
    /\ args.num_fid_samples >= 1

\* C19: in a run with a valid configuration, a sampling strategy and at least
\* one requested sample, the workers enter the same collectives in the same
\* order (setup barrier, per iteration an all_gather in gather mode and a
\* barrier, then two barriers), and every worker eventually tears the
\* process group down.
C19_SameCollectivesThenTeardown ==
    /\ [](FullRun =>
            \A r \in Ranks :
                /\ IsPrefix(calls[r], ExpectedCalls)
                /\ pc[r] = "done" => calls[r] = ExpectedCalls /\ r \notin pg)
    /\ (FullRun ~> AllDone)

C19_Witness ==
    /\ FullRun
    /\ AllDone
    /\ world_size >= 2
    /\ ~args.save_to_disk
    /\ plan[0].iterations >= 2
    /\ calls[0] = calls[1]
    /\ Len(calls[0]) = 3 + 2 * plan[0].iterations

\* C20: the sampling loop is handed the function the guidance setup chose:
\* forward_with_cfg together with a cfg_scale keyword when cfg_scale > 1.0,
\* forward without that keyword when cfg_scale = 1.0.
C20_SamplerGetsSelectedFn ==
    \A r \in Ranks :
        sampler_call[r].loop # "none" =>
            /\ sampler_call[r].fn = sample_fn[r]
            /\ sampler_call[r].fn =
                   IF args.cfg_scale > CfgUnit THEN "forward_with_cfg"
                                               ELSE "forward"
            /\ ("cfg_scale" \in DOMAIN sampler_call[r].kwargs)
                   <=> (args.cfg_scale > CfgUnit)

=============================================================================
